---- MODULE Spec2Model ----
(***************************************************************************)
(* A model of src/main.py: the recipe valuation engine (Recipe.calculate_  *)
(* cost, Recipe.calculate_total_amount), the module-level price fetch and  *)
(* recipe construction, and main().                                        *)
(*                                                                         *)
(* Numbers.  Python computes with binary64 floats.  The model computes     *)
(* with exact rationals <<n, d>> (d > 0, lowest terms).  Every number the  *)
(* model draws is an integer or a dyadic rational of small magnitude, and  *)
(* every divisor is a power of two (as are the output amounts 1, 4, 8 of   *)
(* the program's own recipes), so every binary64 operation the code        *)
(* performs on these inputs is exact and the rational is the float.        *)
(* Rounding error of binary64 on other inputs is outside the model.        *)
(***************************************************************************)
EXTENDS Integers, Sequences, FiniteSets, TLC

VARIABLES
    pc,                 \* where the process is: a statement of the module or of main()
    response,           \* <<>>, or <<data>> once get_json has returned data
    items_data,         \* main.py:97, Dict[str, Item]
    namespace,          \* module globals bound by the recipe constructions (99-147)
    stdin,              \* what the input() calls have consumed, in order
    t3_amount,          \* main.py:174: <<>> while unbound, then <<int>>
    minion_amount,      \* main.py:175: <<>> while unbound, then <<int>>
    fuel_per_minion,    \* main.py:176
    total_cost,         \* main.py:179
    total_items_needed, \* main.py:184
    stdout,             \* what the process has written, in order
    exit_code,          \* <<>> while running, <<c>> once the process has ended
    error,              \* the exception that ended the process, or "none"
    log,                \* engine: the two most recent calls, oldest first
    returned,           \* engine: the mapping the last calculate_total_amount returned
    stack,              \* call stack of a running valuation, innermost frame last
    total_items,        \* the accumulator of the running calculate_total_amount
    retval              \* <<>> during a valuation, <<value>> once it has returned

vars == <<pc, response, items_data, namespace, stdin, t3_amount, minion_amount, fuel_per_minion,
          total_cost, total_items_needed, stdout, exit_code, error,
          log, returned, stack, total_items, retval>>

programVars == <<stdin, t3_amount, minion_amount, fuel_per_minion, total_cost,
                 total_items_needed, stdout, exit_code, error>>
engineVars == <<log, returned>>
walkVars == <<stack, total_items, retval>>

-----------------------------------------------------------------------------
(* Bounds of the model.                                                    *)

\* longest line the operator types at a prompt
MaxLen == 2
\* largest target amount of an engine or stepwise call (besides 8)
MaxTarget == 2
\* frames after which the interpreter raises RecursionError (CPython: 1000)
RecursionLimit == 8

-----------------------------------------------------------------------------
(* Float arithmetic, on exact rationals <<n, d>>.                          *)

Abs(n) == IF n < 0 THEN -n ELSE n

GCD[a \in Nat, b \in Nat] == IF b = 0 THEN a ELSE GCD[b, a % b]

Norm(n, d) ==
    LET s == IF d < 0 THEN -1 ELSE 1
        g == GCD[Abs(n), Abs(d)]
    IN  <<(s * n) \div g, (s * d) \div g>>

Float(n) == <<n, 1>>
Zero == Float(0)

FAdd(a, b) == Norm(a[1] * b[2] + b[1] * a[2], a[2] * b[2])
FMul(a, b) == Norm(a[1] * b[1], a[2] * b[2])
\* a / b for b # 0 (b = 0 raises ZeroDivisionError: see TrueDiv)
FDiv(a, b) == Norm(a[1] * b[2], a[2] * b[1])
FLess(a, b) == a[1] * b[2] < b[1] * a[2]
FLeq(a, b) == a[1] * b[2] <= b[1] * a[2]

RECURSIVE Pow10(_)
Pow10(k) == IF k = 0 THEN 1 ELSE 10 * Pow10(k - 1)

\* round(x, ndigits) of a float: to the nearest multiple of 10^-ndigits,
\* a tie to the even one
round(x, ndigits) ==
    LET scale == Pow10(ndigits)
        num == x[1] * scale
        fl == num \div x[2]
        twice == 2 * (num - fl * x[2])
        q == IF twice < x[2] THEN fl
             ELSE IF twice > x[2] THEN fl + 1
             ELSE IF fl % 2 = 0 THEN fl ELSE fl + 1
    IN  Norm(q, scale)

\* math.ceil(x): an int
ceil(x) == -((-x[1]) \div x[2])

\* a slip: IEEE division, where x / 0 is an infinity or a NaN <<s, 0>>
TrueDiv_ieee(a, b) ==
    IF b = 0
    THEN [exc |-> "none", val |-> <<IF a > 0 THEN 1 ELSE IF a < 0 THEN -1 ELSE 0, 0>>]
    ELSE [exc |-> "none", val |-> Norm(a, b)]

\* a / b of two ints (main.py:176): a float, or ZeroDivisionError
TrueDiv(a, b) ==
    IF b = 0 THEN [exc |-> "ZeroDivisionError", val |-> Zero]
    ELSE [exc |-> "none", val |-> Norm(a, b)]

-----------------------------------------------------------------------------
(* dict, as the sequence of its <<key, value>> pairs in insertion order.   *)

EmptyDict == <<>>
Keys(d) == {d[i][1] : i \in 1..Len(d)}
Get(d, k) == d[CHOOSE i \in 1..Len(d) : d[i][1] = k][2]
Put(d, k, v) ==
    IF k \in Keys(d)
    THEN [i \in 1..Len(d) |-> IF d[i][1] = k THEN <<k, v>> ELSE d[i]]
    ELSE Append(d, <<k, v>>)

-----------------------------------------------------------------------------
(* The model classes (main.py:21-35).  An Item is [item_id, price,         *)
(* stack_size]; an Ingredient is [item, amount] with item an Item or a     *)
(* Recipe; a Recipe is [name, ingredients, output_amount] with ingredients *)
(* a dict from ingredient name to Ingredient.                              *)

Item(item_id, price, stack_size) ==
    [item_id |-> item_id, price |-> price, stack_size |-> stack_size]

Ingredient(item, amount) == [item |-> item, amount |-> amount]

Recipe(name, ingredients, output_amount) ==
    [name |-> name, ingredients |-> ingredients, output_amount |-> output_amount]

\* isinstance(x, Recipe)
IsRecipe(x) == "ingredients" \in DOMAIN x

RECURSIVE calculate_cost(_)
RECURSIVE CostSum(_, _, _)

\* sum() over the generator of lines 40-45: acc is the sum so far, the i-th
\* ingredient is the next one
CostSum(ingredients, i, acc) ==
    IF i > Len(ingredients) THEN acc
    ELSE LET ingredient == ingredients[i][2]
             term == IF IsRecipe(ingredient.item)
                     THEN FMul(calculate_cost(ingredient.item), Float(ingredient.amount))
                     ELSE FMul(ingredient.item.price, Float(ingredient.amount))
         IN  CostSum(ingredients, i + 1, FAdd(acc, term))

\* a slip: the sum is returned without the division by output_amount
calculate_cost_undivided(self) == CostSum(self.ingredients, 1, Zero)

\* Recipe.calculate_cost
calculate_cost(self) ==
    LET sum == CostSum(self.ingredients, 1, Zero)
    IN  FDiv(sum, Float(self.output_amount))

\* a slip: a leaf's amount is assigned, whether or not the key is there
Accumulate_overwriting(acc, item_id, amount) == Put(acc, item_id, amount)

\* lines 66-70: add to the running total, or start it
Accumulate(acc, item_id, amount) ==
    IF item_id \in Keys(acc)
    THEN Put(acc, item_id, FAdd(Get(acc, item_id), amount))
    ELSE Put(acc, item_id, amount)

\* a slip: the amount handed down is rounded up to whole units
Scaled_ceiled(ingredient, multiplier) ==
    Float(ceil(FMul(Float(ingredient.amount), multiplier)))

\* ingredient.amount * multiplier (lines 63, 68, 70)
Scaled(ingredient, multiplier) == FMul(Float(ingredient.amount), multiplier)

\* a slip: the target is not divided by output_amount
Multiplier_unscaled(self, target_amount) == target_amount

\* line 59
Multiplier(self, target_amount) == FDiv(target_amount, Float(self.output_amount))

RECURSIVE calculate_total_amount_recursive(_, _, _)
RECURSIVE AmountLoop(_, _, _, _)

\* the for loop of lines 60-70 from the i-th ingredient on; acc is the
\* shared dict, returned as the loop leaves it
AmountLoop(self, multiplier, i, acc) ==
    IF i > Len(self.ingredients) THEN acc
    ELSE LET ingredient == self.ingredients[i][2]
             scaled == Scaled(ingredient, multiplier)
         IN  IF IsRecipe(ingredient.item)
             THEN AmountLoop(self, multiplier, i + 1,
                      calculate_total_amount_recursive(ingredient.item, scaled, acc))
             ELSE AmountLoop(self, multiplier, i + 1,
                      Accumulate(acc, ingredient.item.item_id, scaled))

\* Recipe._calculate_total_amount_recursive; target_amount is a float below
\* the top level
calculate_total_amount_recursive(self, target_amount, acc) ==
    AmountLoop(self, Multiplier(self, target_amount), 1, acc)

\* a slip: one accumulator shared by all calls (a mutable default or a class
\* attribute), which is also the object every call returns
calculate_total_amount_shared(self, target_amount) ==
    calculate_total_amount_recursive(self, Float(target_amount), returned)

\* Recipe.calculate_total_amount
calculate_total_amount(self, target_amount) ==
    calculate_total_amount_recursive(self, Float(target_amount), EmptyDict)

-----------------------------------------------------------------------------
(* The price fetch (main.py:8-17, 74-97).                                  *)

ITEM_DATA ==
    << <<"CHILI_PEPPER", [id |-> "CHILI_PEPPER", stack_size |-> 64]>>,
       <<"VERY_CRUDE_GABAGOOL", [id |-> "VERY_CRUDE_GABAGOOL", stack_size |-> 64]>>,
       <<"ENCHANTED_SULPHUR", [id |-> "ENCHANTED_SULPHUR", stack_size |-> 64]>>,
       <<"ENCHANTED_COAL", [id |-> "ENCHANTED_COAL", stack_size |-> 64]>>,
       <<"INFERNO_FUEL_BLOCK", [id |-> "INFERNO_FUEL_BLOCK", stack_size |-> 64]>>,
       <<"CRUDE_GABAGOOL_DISTILLATE",
         [id |-> "CRUDE_GABAGOOL_DISTILLATE", stack_size |-> 64]>> >>

ProductIds == {ITEM_DATA[i][2].id : i \in 1..Len(ITEM_DATA)}

\* buy prices the bazaar may quote; 2305/1024 = 2.2509765625 rounds to 2.25
PriceTables ==
    { [id \in ProductIds |->
          CASE id = "ENCHANTED_COAL" -> Float(2)
            [] id = "ENCHANTED_SULPHUR" -> Float(100)
            [] id = "VERY_CRUDE_GABAGOOL" -> Float(3)
            [] id = "INFERNO_FUEL_BLOCK" -> Float(5)
            [] id = "CRUDE_GABAGOOL_DISTILLATE" -> Float(7)
            [] OTHER -> Float(1)],
      [id \in ProductIds |->
          CASE id = "ENCHANTED_COAL" -> <<2305, 1024>>
            [] id = "ENCHANTED_SULPHUR" -> <<25, 2>>
            [] id = "VERY_CRUDE_GABAGOOL" -> Float(1)
            [] id = "INFERNO_FUEL_BLOCK" -> <<3, 4>>
            [] id = "CRUDE_GABAGOOL_DISTILLATE" -> Float(10)
            [] OTHER -> Float(4)] }

\* the JSON documents get_json may return: any of the products may be absent
Responses ==
    { [products |-> [id \in present |-> [quick_status |-> [buyPrice |-> table[id]]]]] :
          present \in SUBSET ProductIds, table \in PriceTables }

RECURSIVE FetchFrom(_, _)
\* the dict comprehension of lines 82-92 from the i-th entry of ITEM_DATA on
FetchFrom(data, i) ==
    IF i > Len(ITEM_DATA) THEN EmptyDict
    ELSE LET name == ITEM_DATA[i][1]
             item_info == ITEM_DATA[i][2]
             rest == FetchFrom(data, i + 1)
         IN  IF item_info.id \in DOMAIN data.products
             THEN <<  <<name,
                        Item(item_info.id,
                             round(data.products[item_info.id].quick_status.buyPrice, 2),
                             item_info.stack_size)>> >> \o rest
             ELSE rest

RECURSIVE FetchDefaulting(_, _)
FetchDefaulting(data, i) ==
    IF i > Len(ITEM_DATA) THEN EmptyDict
    ELSE LET name == ITEM_DATA[i][1]
             item_info == ITEM_DATA[i][2]
             price == IF item_info.id \in DOMAIN data.products
                      THEN round(data.products[item_info.id].quick_status.buyPrice, 2)
                      ELSE Zero
         IN  << <<name, Item(item_info.id, price, item_info.stack_size)>> >>
                 \o FetchDefaulting(data, i + 1)

\* a slip: an absent product gets the price 0 (products.get(id, default))
fetch_item_data_defaulting(data) == FetchDefaulting(data, 1)

\* fetch_item_data, given what get_json returned
fetch_item_data(data) == FetchFrom(data, 1)

-----------------------------------------------------------------------------
(* Recipe creation (main.py:99-147): five module-level assignments, each   *)
(* subscripting items_data and reading recipes bound before it.            *)

ConstructionOrder ==
    <<"SULPHURIC_COAL", "FUEL_GABAGOOL", "HEAVY_GABAGOOL", "HYPERGOLIC_GABAGOOL",
      "T3_FUEL">>

\* the keys the construction of `name` subscripts items_data with
ItemsRead(name) ==
    CASE name = "SULPHURIC_COAL" -> {"ENCHANTED_COAL", "ENCHANTED_SULPHUR"}
      [] name = "FUEL_GABAGOOL" -> {"VERY_CRUDE_GABAGOOL"}
      [] name = "HEAVY_GABAGOOL" -> {}
      [] name = "HYPERGOLIC_GABAGOOL" -> {}
      [] name = "T3_FUEL" -> {"INFERNO_FUEL_BLOCK", "CRUDE_GABAGOOL_DISTILLATE"}

\* the module globals the construction of `name` reads
NamesRead(name) ==
    CASE name = "SULPHURIC_COAL" -> {}
      [] name = "FUEL_GABAGOOL" -> {"SULPHURIC_COAL"}
      [] name = "HEAVY_GABAGOOL" -> {"SULPHURIC_COAL", "FUEL_GABAGOOL"}
      [] name = "HYPERGOLIC_GABAGOOL" -> {"SULPHURIC_COAL", "HEAVY_GABAGOOL"}
      [] name = "T3_FUEL" -> {"HYPERGOLIC_GABAGOOL"}

\* the Recipe the construction of `name` builds from items and the globals g
Construct(name, items, g) ==
    CASE name = "SULPHURIC_COAL" ->
           Recipe("Sulphuric Coal",
                  << <<"ENCHANTED_COAL",
                       Ingredient(Get(items, "ENCHANTED_COAL"), 16)>>,
                     <<"ENCHANTED_SULPHUR",
                       Ingredient(Get(items, "ENCHANTED_SULPHUR"), 1)>> >>,
                  4)
      [] name = "FUEL_GABAGOOL" ->
           Recipe("Fuel Gabagool",
                  << <<"SULPHURIC_COAL", Ingredient(g["SULPHURIC_COAL"], 8)>>,
                     <<"VERY_CRUDE_GABAGOOL",
                       Ingredient(Get(items, "VERY_CRUDE_GABAGOOL"), 1)>> >>,
                  8)
      [] name = "HEAVY_GABAGOOL" ->
           Recipe("Heavy Gabagool",
                  << <<"SULPHURIC_COAL", Ingredient(g["SULPHURIC_COAL"], 1)>>,
                     <<"FUEL_GABAGOOL", Ingredient(g["FUEL_GABAGOOL"], 24)>> >>,
                  1)
      [] name = "HYPERGOLIC_GABAGOOL" ->
           Recipe("Hypergolic Gabagool",
                  << <<"SULPHURIC_COAL", Ingredient(g["SULPHURIC_COAL"], 1)>>,
                     <<"HEAVY_GABAGOOL", Ingredient(g["HEAVY_GABAGOOL"], 12)>> >>,
                  1)
      [] name = "T3_FUEL" ->
           Recipe("Inferno Minion Fuel",
                  << <<"HYPERGOLIC_GABAGOOL", Ingredient(g["HYPERGOLIC_GABAGOOL"], 1)>>,
                     <<"INFERNO_FUEL_BLOCK",
                       Ingredient(Get(items, "INFERNO_FUEL_BLOCK"), 2)>>,
                     <<"CRUDE_GABAGOOL_DISTILLATE",
                       Ingredient(Get(items, "CRUDE_GABAGOOL_DISTILLATE"), 6)>> >>,
                  1)

NoGlobals == [n \in {} |-> 0]

RECURSIVE ConstructAll(_, _, _)
\* the globals after the constructions i, i+1, ... of ConstructionOrder
ConstructAll(items, g, i) ==
    IF i > Len(ConstructionOrder) THEN g
    ELSE LET name == ConstructionOrder[i]
         IN  ConstructAll(items, g @@ (name :> Construct(name, items, g)), i + 1)

-----------------------------------------------------------------------------
(* Operator input (main.py:151-170).                                       *)

\* what a key press adds to the line; "x" stands for a character that is no
\* digit, sign, underscore or white space (a letter, a dot, ...)
Chars == {"0", "1", "-", " ", "x"}
Digits == {"0", "1"}

RECURSIVE Lines(_)
Lines(n) ==
    IF n = 0 THEN {<<>>}
    ELSE Lines(n - 1) \cup {Append(l, c) : l \in {m \in Lines(n - 1) : Len(m) = n - 1},
                                           c \in Chars}

\* what input() may do: return the line typed, or raise
OperatorInputs ==
    {[kind |-> "line", chars |-> l] : l \in Lines(MaxLen)}
        \cup {[kind |-> "KeyboardInterrupt", chars |-> <<>>],
              [kind |-> "EOFError", chars |-> <<>>]}

RECURSIVE LStrip(_)
LStrip(s) == IF s # <<>> /\ Head(s) = " " THEN LStrip(Tail(s)) ELSE s
RECURSIVE RStrip(_)
RStrip(s) ==
    IF s # <<>> /\ s[Len(s)] = " " THEN RStrip(SubSeq(s, 1, Len(s) - 1)) ELSE s

DigitValue(c) == IF c = "1" THEN 1 ELSE 0

RECURSIVE Decimal(_, _)
\* the value of the digit string s after the digits of value acc
Decimal(s, acc) ==
    IF s = <<>> THEN acc ELSE Decimal(Tail(s), 10 * acc + DigitValue(Head(s)))

\* a slip: an unparsable line counts as 0
int_lenient(s) ==
    LET t == RStrip(LStrip(s))
        neg == t # <<>> /\ Head(t) = "-"
        ds == IF neg THEN Tail(t) ELSE t
        good == ds # <<>> /\ \A i \in 1..Len(ds) : ds[i] \in Digits
    IN  IF good
        THEN [exc |-> "none", val |-> IF neg THEN -Decimal(ds, 0) ELSE Decimal(ds, 0)]
        ELSE [exc |-> "none", val |-> 0]

\* int(s) of a str: surrounding whitespace dropped, an optional sign, then
\* one or more digits; anything else raises ValueError
int(s) ==
    LET t == RStrip(LStrip(s))
        neg == t # <<>> /\ Head(t) = "-"
        ds == IF neg THEN Tail(t) ELSE t
        good == ds # <<>> /\ \A i \in 1..Len(ds) : ds[i] \in Digits
    IN  IF good
        THEN [exc |-> "none", val |-> IF neg THEN -Decimal(ds, 0) ELSE Decimal(ds, 0)]
        ELSE [exc |-> "ValueError", val |-> 0]

-----------------------------------------------------------------------------
(* The program: the module's statements, then main() (main.py:173-194).    *)

Line(text, args) == [text |-> text, args |-> args]

\* the process ends on an uncaught exception: traceback, exit status 1
Raise(exc) ==
    /\ pc' = "crashed"
    /\ error' = exc
    /\ exit_code' = <<1>>

\* exit(1)
Exit1 ==
    /\ pc' = "exited"
    /\ exit_code' = <<1>>
    /\ UNCHANGED error

Init ==
    /\ pc = "fetch"
    /\ response = <<>>
    /\ items_data = EmptyDict
    /\ namespace = NoGlobals
    /\ stdin = <<>>
    /\ t3_amount = <<>>
    /\ minion_amount = <<>>
    /\ fuel_per_minion = Zero
    /\ total_cost = Zero
    /\ total_items_needed = EmptyDict
    /\ stdout = <<>>
    /\ exit_code = <<>>
    /\ error = "none"
    /\ log = <<>>
    /\ returned = EmptyDict
    /\ stack = <<>>
    /\ total_items = EmptyDict
    /\ retval = <<>>

\* line 97, the request answered
FetchItemData ==
    /\ pc = "fetch"
    /\ \E data \in Responses :
          /\ response' = <<data>>
          /\ items_data' = fetch_item_data(data)
    /\ pc' = "construct"
    /\ UNCHANGED <<namespace, programVars, engineVars, walkVars>>

\* line 97, the request failed: requests raises (lines 75-76)
FetchFails ==
    /\ pc = "fetch"
    /\ Raise("RequestException")
    /\ UNCHANGED <<response, items_data, namespace, stdin, t3_amount, minion_amount,
                   fuel_per_minion, total_cost, total_items_needed, stdout,
                   engineVars, walkVars>>

\* the next of the five recipe constructions (lines 100-147)
ConstructRecipe ==
    /\ pc = "construct"
    /\ LET i == Cardinality(DOMAIN namespace) + 1
           name == ConstructionOrder[i]
       IN  IF ~(NamesRead(name) \subseteq DOMAIN namespace)
           THEN /\ Raise("NameError")
                /\ UNCHANGED namespace
           ELSE IF ~(ItemsRead(name) \subseteq Keys(items_data))
           THEN /\ Raise("KeyError")
                /\ UNCHANGED namespace
           ELSE /\ namespace' = namespace @@ (name :> Construct(name, items_data, namespace))
                /\ pc' = IF i = Len(ConstructionOrder) THEN "constructed" ELSE "construct"
                /\ UNCHANGED <<error, exit_code>>
    /\ UNCHANGED <<response, items_data, stdin, t3_amount, minion_amount, fuel_per_minion,
                   total_cost, total_items_needed, stdout, engineVars, walkVars>>

\* int(input(prompt)) inside the try of lines 152-159 and 163-170: what is
\* printed, and the int returned or the exception handled or let through
ReadInt(prompt, inp) ==
    LET shown == <<Line(prompt, <<>>)>>
        parsed == int(inp.chars)
    IN  IF inp.kind = "KeyboardInterrupt"
        THEN [out |-> shown \o <<Line("\nReceived KeyboardInterrupt ...", <<>>)>>,
              exc |-> "SystemExit", val |-> 0]
        ELSE IF inp.kind = "EOFError"
        THEN [out |-> shown, exc |-> "EOFError", val |-> 0]
        ELSE IF parsed.exc = "ValueError"
        THEN [out |-> shown \o <<Line("\nScheint keine Zahl zu sein ...", <<>>)>>,
              exc |-> "SystemExit", val |-> 0]
        ELSE [out |-> shown, exc |-> "none", val |-> parsed.val]

\* line 174
get_t3_amount ==
    /\ pc = "constructed"
    /\ \E inp \in OperatorInputs :
          LET r == ReadInt("Anzahl T3 Fuel eingeben\n>>> ", inp)
          IN  /\ stdout' = stdout \o r.out
              /\ stdin' = Append(stdin, inp)
              /\ IF r.exc = "SystemExit" THEN Exit1 /\ UNCHANGED t3_amount
                 ELSE IF r.exc # "none" THEN Raise(r.exc) /\ UNCHANGED t3_amount
                 ELSE /\ t3_amount' = <<r.val>>
                      /\ pc' = "get_minion_amount"
                      /\ UNCHANGED <<error, exit_code>>
    /\ UNCHANGED <<response, items_data, namespace, minion_amount, fuel_per_minion,
                   total_cost, total_items_needed, engineVars, walkVars>>

\* line 175
get_minion_amount ==
    /\ pc = "get_minion_amount"
    /\ \E inp \in OperatorInputs :
          LET r == ReadInt("Anzahl inferno Minions\n>>> ", inp)
          IN  /\ stdout' = stdout \o r.out
              /\ stdin' = Append(stdin, inp)
              /\ IF r.exc = "SystemExit" THEN Exit1 /\ UNCHANGED minion_amount
                 ELSE IF r.exc # "none" THEN Raise(r.exc) /\ UNCHANGED minion_amount
                 ELSE /\ minion_amount' = <<r.val>>
                      /\ pc' = "divide"
                      /\ UNCHANGED <<error, exit_code>>
    /\ UNCHANGED <<response, items_data, namespace, t3_amount, fuel_per_minion,
                   total_cost, total_items_needed, engineVars, walkVars>>

\* line 176
Divide ==
    /\ pc = "divide"
    /\ LET q == TrueDiv(t3_amount[1], minion_amount[1])
       IN  IF q.exc # "none"
           THEN Raise(q.exc) /\ UNCHANGED fuel_per_minion
           ELSE /\ fuel_per_minion' = q.val
                /\ pc' = "cost"
                /\ UNCHANGED <<error, exit_code>>
    /\ UNCHANGED <<response, items_data, namespace, stdin, t3_amount, minion_amount,
                   total_cost, total_items_needed, stdout, engineVars, walkVars>>

\* line 179
ComputeCost ==
    /\ pc = "cost"
    /\ total_cost' = FMul(calculate_cost(namespace["T3_FUEL"]), Float(t3_amount[1]))
    /\ pc' = "print_cost"
    /\ UNCHANGED <<response, items_data, namespace, stdin, t3_amount, minion_amount,
                   fuel_per_minion, total_items_needed, stdout, exit_code, error,
                   engineVars, walkVars>>

\* lines 180-181; "{:.2f}" rounds to two decimals
PrintCost ==
    /\ pc = "print_cost"
    /\ stdout' = stdout \o <<Line("\nGesamtkosten für {t3_amount} T3 Fuel:", t3_amount),
                             Line("{total_cost:.2f} Coins", <<round(total_cost, 2)>>)>>
    /\ pc' = "amounts"
    /\ UNCHANGED <<response, items_data, namespace, stdin, t3_amount, minion_amount,
                   fuel_per_minion, total_cost, total_items_needed, exit_code, error,
                   engineVars, walkVars>>

\* line 184
ComputeAmounts ==
    /\ pc = "amounts"
    /\ total_items_needed' = calculate_total_amount(namespace["T3_FUEL"], t3_amount[1])
    /\ pc' = "print_items"
    /\ UNCHANGED <<response, items_data, namespace, stdin, t3_amount, minion_amount,
                   fuel_per_minion, total_cost, stdout, exit_code, error,
                   engineVars, walkVars>>

\* a slip: the amount rounded to the nearest whole number ("{amount:.0f}")
Displayed_nearest(amount) == round(amount, 0)[1]

\* line 188: math.ceil(round(amount, 2)), an int, which ":.0f" prints as it is
Displayed(amount) == ceil(round(amount, 2))

\* lines 186-188
PrintItems ==
    /\ pc = "print_items"
    /\ stdout' = stdout \o <<Line("\nGesamtanzahl der benötigten Items:", <<>>)>>
                        \o [i \in 1..Len(total_items_needed) |->
                               Line(total_items_needed[i][1],
                                    <<Displayed(total_items_needed[i][2])>>)]
    /\ pc' = "print_ratio"
    /\ UNCHANGED <<response, items_data, namespace, stdin, t3_amount, minion_amount,
                   fuel_per_minion, total_cost, total_items_needed, exit_code, error,
                   engineVars, walkVars>>

\* line 190, and the normal end of the process
PrintRatio ==
    /\ pc = "print_ratio"
    /\ stdout' = Append(stdout, Line("\nFuel pro minion: ", <<fuel_per_minion>>))
    /\ pc' = "done"
    /\ exit_code' = <<0>>
    /\ UNCHANGED <<response, items_data, namespace, stdin, t3_amount, minion_amount,
                   fuel_per_minion, total_cost, total_items_needed, error,
                   engineVars, walkVars>>

Next ==
    \/ FetchItemData
    \/ FetchFails
    \/ ConstructRecipe
    \/ get_t3_amount
    \/ get_minion_amount
    \/ Divide
    \/ ComputeCost
    \/ PrintCost
    \/ ComputeAmounts
    \/ PrintItems
    \/ PrintRatio

Spec == Init /\ [][Next]_vars

-----------------------------------------------------------------------------
(* The valuation engine on its own: calculate_cost and                     *)
(* calculate_total_amount called, in any order, on the recipes of a tree.  *)
(* The tree is the program's, or one of a family of small trees built with *)
(* the same classes.                                                       *)

\* the response in which every product has the price of `table`
FullResponse(table) ==
    [products |-> [id \in ProductIds |-> [quick_status |-> [buyPrice |-> table[id]]]]]

\* ingredient amounts and output amounts of the small trees; the output
\* amounts are powers of two, like the program's 1, 4 and 8
Amounts == {1, 3}
OutputAmounts == {1, 4}

\* recipes over the leaves a and b alone: no ingredient, a, or a and b
LeafRecipes(a, b) ==
    LET none == {<<>>}
        one == {<< <<a.item_id, Ingredient(a, x)>> >> : x \in Amounts}
        two == {<< <<a.item_id, Ingredient(a, x)>>, <<b.item_id, Ingredient(b, y)>> >> :
                    x \in Amounts, y \in Amounts}
    IN  {Recipe("R1", ings, out) : ings \in none \cup one \cup two, out \in OutputAmounts}

\* recipes made of the recipe r, alone or with the leaf a beside it
NestedRecipes(r, a) ==
    LET alone == {<< <<"R1", Ingredient(r, x)>> >> : x \in Amounts}
        both == {<< <<"R1", Ingredient(r, x)>>, <<a.item_id, Ingredient(a, y)>> >> :
                     x \in Amounts, y \in Amounts}
    IN  {Recipe("R2", ings, out) : ings \in alone \cup both, out \in OutputAmounts}

SmallTrees(items) ==
    LET a == Get(items, "ENCHANTED_COAL")
        b == Get(items, "ENCHANTED_SULPHUR")
    IN  {("R1" :> r1) : r1 \in LeafRecipes(a, b)}
            \cup UNION {{("R1" :> r1) @@ ("R2" :> r2) : r2 \in NestedRecipes(r1, a)} :
                          r1 \in LeafRecipes(a, b)}

Targets == (1..MaxTarget) \cup {8}

\* a call as the log keeps it; `dirty` says that the caller had changed the
\* dict of the call before when this call was made
CostCall(name, value) ==
    [fn |-> "calculate_cost", self |-> name, target |-> 0, result |-> value,
     dirty |-> FALSE]
AmountCall(name, target, value, dirty) ==
    [fn |-> "calculate_total_amount", self |-> name, target |-> target,
     result |-> value, dirty |-> dirty]
Dirty ==
    /\ log # <<>>
    /\ log[Len(log)].fn = "calculate_total_amount"
    /\ returned # log[Len(log)].result

\* the log keeps the two most recent calls, and `dirty` of the latest only
Logged(l, call) ==
    IF l = <<>> THEN <<call>> ELSE <<[l[Len(l)] EXCEPT !.dirty = FALSE], call>>

InitEngine ==
    /\ pc = "engine"
    /\ \E table \in PriceTables :
          /\ response = <<FullResponse(table)>>
          /\ items_data = fetch_item_data(FullResponse(table))
    /\ namespace \in {ConstructAll(items_data, NoGlobals, 1)} \cup SmallTrees(items_data)
    /\ stdin = <<>>
    /\ t3_amount = <<>>
    /\ minion_amount = <<>>
    /\ fuel_per_minion = Zero
    /\ total_cost = Zero
    /\ total_items_needed = EmptyDict
    /\ stdout = <<>>
    /\ exit_code = <<>>
    /\ error = "none"
    /\ log = <<>>
    /\ returned = EmptyDict
    /\ stack = <<>>
    /\ total_items = EmptyDict
    /\ retval = <<>>

\* r.calculate_cost() for a recipe r of the tree
CallCalculateCost ==
    /\ pc = "engine"
    /\ \E name \in DOMAIN namespace :
          log' = Logged(log, CostCall(name, calculate_cost(namespace[name])))
    /\ returned' = EmptyDict
    /\ UNCHANGED <<pc, response, items_data, namespace, programVars, walkVars>>

\* r.calculate_total_amount(T) for a recipe r of the tree; the caller keeps
\* the dict it gets
CallCalculateTotalAmount ==
    /\ pc = "engine"
    /\ \E name \in DOMAIN namespace, T \in Targets :
          LET value == calculate_total_amount(namespace[name], T)
          IN  /\ log' = Logged(log, AmountCall(name, T, value, Dirty))
              /\ returned' = value
    /\ UNCHANGED <<pc, response, items_data, namespace, programVars, walkVars>>

\* the caller changes an entry of the dict the last call returned
MutateReturned ==
    /\ pc = "engine"
    /\ log # <<>>
    /\ log[Len(log)].fn = "calculate_total_amount"
    /\ returned = log[Len(log)].result
    /\ \E k \in Keys(returned) :
          returned' = Put(returned, k, FAdd(Get(returned, k), Float(1)))
    /\ UNCHANGED <<pc, response, items_data, namespace, programVars, log, walkVars>>

NextEngine ==
    \/ CallCalculateCost
    \/ CallCalculateTotalAmount
    \/ MutateReturned

SpecEngine == InitEngine /\ [][NextEngine]_vars

-----------------------------------------------------------------------------
(* A valuation step by step: the call stack of calculate_cost or of        *)
(* _calculate_total_amount_recursive on the program's recipes, one frame   *)
(* per call in progress.  A frame is [fn, self, i, multiplier, sum]: self  *)
(* is the recipe, referred to by the module global bound to it, the i-th   *)
(* ingredient is the next one, multiplier is line 59's, sum is what sum()  *)
(* of line 39 has added up so far.                                         *)

Frame(fn, self, multiplier) ==
    [fn |-> fn, self |-> self, i |-> 1, multiplier |-> multiplier, sum |-> Zero]

Top == stack[Len(stack)]
Pop(st) == SubSeq(st, 1, Len(st) - 1)
ReplaceTop(st, f) == [st EXCEPT ![Len(st)] = f]
Ingredients(f) == namespace[f.self].ingredients
NextIngredient(f) == Ingredients(f)[f.i][2]
NameOf(recipe) == CHOOSE n \in DOMAIN namespace : namespace[n] = recipe

\* a slip: the recursive call is made on self
Callee_self(f) == f.self

\* the recipe lines 41 and 62 call into: ingredient.item
Callee(f) == NameOf(NextIngredient(f).item)

InitWalk ==
    /\ pc = "construct"
    /\ \E table \in PriceTables :
          /\ response = <<FullResponse(table)>>
          /\ items_data = fetch_item_data(FullResponse(table))
    /\ namespace = NoGlobals
    /\ stdin = <<>>
    /\ t3_amount = <<>>
    /\ minion_amount = <<>>
    /\ fuel_per_minion = Zero
    /\ total_cost = Zero
    /\ total_items_needed = EmptyDict
    /\ stdout = <<>>
    /\ exit_code = <<>>
    /\ error = "none"
    /\ log = <<>>
    /\ returned = EmptyDict
    /\ stack = <<>>
    /\ total_items = EmptyDict
    /\ retval = <<>>

\* r.calculate_cost() is called on a recipe r of the module
StartCost ==
    /\ pc = "constructed"
    /\ stack = <<>>
    /\ \E name \in DOMAIN namespace :
          stack' = <<Frame("calculate_cost", name, Zero)>>
    /\ retval' = <<>>
    /\ UNCHANGED <<pc, response, items_data, namespace, programVars, engineVars,
                   total_items>>

\* r.calculate_total_amount(T) is called: lines 51-52 and 59
StartAmount ==
    /\ pc = "constructed"
    /\ stack = <<>>
    /\ \E name \in DOMAIN namespace, T \in Targets :
          stack' = <<Frame("calculate_total_amount", name,
                           Multiplier(namespace[name], Float(T)))>>
    /\ total_items' = EmptyDict
    /\ retval' = <<>>
    /\ UNCHANGED <<pc, response, items_data, namespace, programVars, engineVars>>

\* the next ingredient is an Item: line 43, or lines 66-70
StepLeaf ==
    /\ stack # <<>>
    /\ pc = "constructed"
    /\ Top.i <= Len(Ingredients(Top))
    /\ ~IsRecipe(NextIngredient(Top).item)
    /\ LET ingredient == NextIngredient(Top)
       IN  IF Top.fn = "calculate_cost"
           THEN /\ stack' = ReplaceTop(stack,
                                [Top EXCEPT !.i = @ + 1,
                                            !.sum = FAdd(@, FMul(ingredient.item.price,
                                                                 Float(ingredient.amount)))])
                /\ UNCHANGED total_items
           ELSE /\ stack' = ReplaceTop(stack, [Top EXCEPT !.i = @ + 1])
                /\ total_items' = Accumulate(total_items, ingredient.item.item_id,
                                             Scaled(ingredient, Top.multiplier))
    /\ UNCHANGED <<pc, response, items_data, namespace, programVars, engineVars, retval>>

\* the next ingredient is a Recipe: the recursive call of line 41, or of
\* lines 62-64 with line 59 of the callee
Descend ==
    /\ stack # <<>>
    /\ pc = "constructed"
    /\ Top.i <= Len(Ingredients(Top))
    /\ IsRecipe(NextIngredient(Top).item)
    /\ IF Len(stack) >= RecursionLimit
       THEN /\ Raise("RecursionError")
            /\ UNCHANGED stack
       ELSE /\ LET callee == Callee(Top)
                   target == Scaled(NextIngredient(Top), Top.multiplier)
               IN  stack' = Append(stack,
                                   IF Top.fn = "calculate_cost"
                                   THEN Frame(Top.fn, callee, Zero)
                                   ELSE Frame(Top.fn, callee, Multiplier(namespace[callee], target)))
            /\ UNCHANGED <<pc, error, exit_code>>
    /\ UNCHANGED <<response, items_data, namespace, stdin, t3_amount, minion_amount,
                   fuel_per_minion, total_cost, total_items_needed, stdout,
                   engineVars, total_items, retval>>

\* what the call of the top frame returns: line 47, or None
ReturnValue(f) == FDiv(f.sum, Float(namespace[f.self].output_amount))

\* the ingredients of a nested call are done: it returns, and its caller
\* goes on (line 41: times the ingredient's amount, into the sum)
Return ==
    /\ Len(stack) > 1
    /\ pc = "constructed"
    /\ Top.i > Len(Ingredients(Top))
    /\ stack' = ReplaceTop(Pop(stack),
                    [stack[Len(stack) - 1] EXCEPT
                        !.i = @ + 1,
                        !.sum = IF Top.fn = "calculate_cost"
                                THEN FAdd(@, FMul(ReturnValue(Top),
                                         Float(NextIngredient(stack[Len(stack) - 1]).amount)))
                                ELSE @])
    /\ UNCHANGED <<pc, response, items_data, namespace, programVars, engineVars,
                   total_items, retval>>

\* the ingredients of the top-level call are done: it returns line 47's
\* quotient, or the accumulator (line 53)
ReturnToCaller ==
    /\ Len(stack) = 1
    /\ pc = "constructed"
    /\ Top.i > Len(Ingredients(Top))
    /\ stack' = <<>>
    /\ retval' = IF Top.fn = "calculate_cost" THEN <<ReturnValue(Top)>> ELSE <<total_items>>
    /\ UNCHANGED <<pc, response, items_data, namespace, programVars, engineVars,
                   total_items>>

WalkStep == StepLeaf \/ Descend \/ Return \/ ReturnToCaller

NextWalk ==
    \/ ConstructRecipe
    \/ StartCost
    \/ StartAmount
    \/ StepLeaf
    \/ Descend
    \/ Return
    \/ ReturnToCaller

\* a call in progress is never suspended: the interpreter runs it on
SpecWalk == InitWalk /\ [][NextWalk]_vars /\ WF_vars(WalkStep)

-----------------------------------------------------------------------------
(* Claims about the program, checked under Spec.                           *)

\* the lines of stdout that report a result
ResultTexts ==
    {"\nGesamtkosten für {t3_amount} T3 Fuel:", "{total_cost:.2f} Coins",
     "\nGesamtanzahl der benötigten Items:", "\nFuel pro minion: "} \cup ProductIds
Printed(text) == \E i \in 1..Len(stdout) : stdout[i].text = text
TimesPrinted(text) == Cardinality({i \in 1..Len(stdout) : stdout[i].text = text})
NothingComputed ==
    /\ fuel_per_minion = Zero
    /\ total_cost = Zero
    /\ total_items_needed = EmptyDict
    /\ \A i \in 1..Len(stdout) : stdout[i].text \notin ResultTexts

\* the leaves the recipe tree is built from
LeavesOfTheTree ==
    {"ENCHANTED_COAL", "ENCHANTED_SULPHUR", "VERY_CRUDE_GABAGOOL",
     "INFERNO_FUEL_BLOCK", "CRUDE_GABAGOOL_DISTILLATE"}
MissingLeaves ==
    IF response = <<>> THEN {}
    ELSE {id \in LeavesOfTheTree : id \notin DOMAIN response[1].products}

\* C4: when the response lacks a leaf of the tree, no Item stands in for it,
\* the run never gets past the recipe constructions, it ends there on a
\* KeyError with exit status 1 before the first construction that reads the
\* missing leaf has bound anything, and nothing is valued or printed.
C4_MissingPriceIsFatal ==
    MissingLeaves # {} =>
        /\ \A i \in 1..Len(items_data) : items_data[i][2].item_id \notin MissingLeaves
        /\ pc \in {"construct", "crashed"}
        /\ pc = "crashed" => error = "KeyError" /\ exit_code = <<1>>
        /\ \A n \in DOMAIN namespace : ItemsRead(n) \cap MissingLeaves = {}
        /\ "T3_FUEL" \notin DOMAIN namespace
        /\ NothingComputed
        /\ stdin = <<>>

\* C4's case: VERY_CRUDE_GABAGOOL is missing, SULPHURIC_COAL was built, and the
\* construction of FUEL_GABAGOOL ended the run
C4_Witness ==
    /\ MissingLeaves = {"VERY_CRUDE_GABAGOOL"}
    /\ pc = "crashed"
    /\ error = "KeyError"
    /\ DOMAIN namespace = {"SULPHURIC_COAL"}

\* C5: with a minion count of 0 the run stops at the division of line 176 on
\* a ZeroDivisionError with exit status 1; the ratio line is never printed,
\* and no ratio is ever infinite or NaN.
C5_ZeroMinionsIsAnError ==
    /\ fuel_per_minion[2] # 0
    /\ minion_amount = <<0>> =>
          /\ pc \in {"divide", "crashed"}
          /\ pc = "crashed" => error = "ZeroDivisionError" /\ exit_code = <<1>>
          /\ ~Printed("\nFuel pro minion: ")
          /\ fuel_per_minion = Zero

\* C5's case: target 1, 0 minions, the run has ended on the division
C5_Witness ==
    /\ t3_amount = <<1>>
    /\ minion_amount = <<0>>
    /\ pc = "crashed"
    /\ error = "ZeroDivisionError"

\* a line that is an integer: blanks, an optional minus, one or more digits
IsIntegerLine(l) ==
    \E a, b \in 0..Len(l) :
        /\ a + b < Len(l)
        /\ \A i \in 1..a : l[i] = " "
        /\ \A i \in (Len(l) - b + 1)..Len(l) : l[i] = " "
        /\ LET body == SubSeq(l, a + 1, Len(l) - b)
               ds == IF Head(body) = "-" THEN Tail(body) ELSE body
           IN  ds # <<>> /\ \A i \in 1..Len(ds) : ds[i] \in {"0", "1"}
Rejected(inp) ==
    \/ inp.kind = "KeyboardInterrupt"
    \/ inp.kind = "line" /\ ~IsIntegerLine(inp.chars)

\* C6: once a prompt has received a non-integer line or a keyboard interrupt,
\* the process has exited with status 1, the last thing printed is the
\* diagnostic, that input was the last one read (no prompt is shown again or
\* after it: an invalid first input leaves the second prompt unshown), and
\* nothing was computed or reported.
C6_BadInputExits ==
    \A k \in 1..Len(stdin) :
        Rejected(stdin[k]) =>
            /\ pc = "exited"
            /\ exit_code = <<1>>
            /\ Len(stdin) = k
            /\ Len(stdout) = k + 1
            /\ stdout[k + 1].text =
                   (IF stdin[k].kind = "KeyboardInterrupt"
                    THEN "\nReceived KeyboardInterrupt ..."
                    ELSE "\nScheint keine Zahl zu sein ...")
            /\ stdout[1].text = "Anzahl T3 Fuel eingeben\n>>> "
            /\ k = 1 => ~Printed("Anzahl inferno Minions\n>>> ")
            /\ k = 2 => stdout[2].text = "Anzahl inferno Minions\n>>> "
            /\ NothingComputed

\* C6's case: the first prompt got the line "x"
C6_Witness ==
    /\ stdin = <<[kind |-> "line", chars |-> <<"x">>]>>
    /\ pc = "exited"

\* what T3_FUEL needs per unit, from the recipes of lines 100-147:
\* 1 + 12 + 12*24 = 301 SULPHURIC_COAL (16/4 coal and 1/4 sulphur each),
\* 12*24/8 = 36 VERY_CRUDE_GABAGOOL, 2 blocks, 6 distillate
ExactRequirement(item_id, T) ==
    CASE item_id = "ENCHANTED_COAL" -> Norm(1204 * T, 1)
      [] item_id = "ENCHANTED_SULPHUR" -> Norm(301 * T, 4)
      [] item_id = "VERY_CRUDE_GABAGOOL" -> Norm(36 * T, 1)
      [] item_id = "INFERNO_FUEL_BLOCK" -> Norm(2 * T, 1)
      [] item_id = "CRUDE_GABAGOOL_DISTILLATE" -> Norm(6 * T, 1)
PrintedAmount(item_id) ==
    stdout[CHOOSE i \in 1..Len(stdout) : stdout[i].text = item_id].args[1]

\* C8: for a target T >= 0, once the item lines are printed, the mapping
\* main got from calculate_total_amount holds the exact, unrounded requirement
\* of each of the five leaves, and the number printed for a leaf is the
\* smallest integer not less than that value.
C8_PrintedIsCeiling ==
    (pc \in {"print_ratio", "done"} /\ t3_amount[1] >= 0) =>
        /\ Keys(total_items_needed) = LeavesOfTheTree
        /\ \A id \in LeavesOfTheTree :
              LET v == Get(total_items_needed, id)
                  p == PrintedAmount(id)
              IN  /\ v = ExactRequirement(id, t3_amount[1])
                  /\ TimesPrinted(id) = 1
                  /\ FLeq(v, Float(p))
                  /\ FLess(Float(p - 1), v)

\* C8's case: target 1 needs 75.25 ENCHANTED_SULPHUR, printed as 76
C8_Witness ==
    /\ pc = "done"
    /\ t3_amount = <<1>>
    /\ Get(total_items_needed, "ENCHANTED_SULPHUR") = <<301, 4>>
    /\ PrintedAmount("ENCHANTED_SULPHUR") = 76

-----------------------------------------------------------------------------
(* Claims about the valuation engine, checked under SpecEngine.            *)

RECURSIVE SumSeq(_)
SumSeq(q) == IF q = <<>> THEN Zero ELSE FAdd(Head(q), SumSeq(Tail(q)))

CostEntries == {i \in 1..Len(log) : log[i].fn = "calculate_cost"}
AmountEntries == {i \in 1..Len(log) : log[i].fn = "calculate_total_amount"}
IsTheProgramsTree == DOMAIN namespace = {ConstructionOrder[i] : i \in 1..5}
PriceOf(item_id) ==
    items_data[CHOOSE i \in 1..Len(items_data) : items_data[i][2].item_id = item_id][2].price

\* what one execution of the recipe costs: per ingredient, the price of a
\* leaf or the unit cost of a recipe, times the amount
PerExecutionCost(node) ==
    SumSeq([i \in 1..Len(node.ingredients) |->
               LET r == node.ingredients[i][2]
               IN  FMul(IF IsRecipe(r.item) THEN calculate_cost(r.item) ELSE r.item.price,
                        Float(r.amount))])

\* C1: every calculate_cost(node) returned the per-execution cost of the node
\* divided by its output_amount; 0 for a node without ingredients; and 33 for
\* the program's SULPHURIC_COAL at the prices 2 and 100.
C1_UnitCost ==
    \A i \in CostEntries :
        LET node == namespace[log[i].self]
        IN  /\ FMul(log[i].result, Float(node.output_amount)) = PerExecutionCost(node)
            /\ log[i].result = FDiv(PerExecutionCost(node), Float(node.output_amount))
            /\ node.ingredients = <<>> => log[i].result = Zero
            /\ (/\ IsTheProgramsTree
                /\ log[i].self = "SULPHURIC_COAL"
                /\ PriceOf("ENCHANTED_COAL") = Float(2)
                /\ PriceOf("ENCHANTED_SULPHUR") = Float(100)) => log[i].result = Float(33)

\* C1's case: the program's SULPHURIC_COAL, output 4, valued at 33
C1_Witness ==
    /\ IsTheProgramsTree
    /\ \E i \in CostEntries :
          /\ log[i].self = "SULPHURIC_COAL"
          /\ namespace["SULPHURIC_COAL"].output_amount = 4
          /\ log[i].result = Float(33)

RECURSIVE PathSum(_, _, _)
\* the sum, over the ingredient paths from node to the leaf item_id, of t
\* times amount / output_amount along the path
PathSum(node, item_id, t) ==
    SumSeq([i \in 1..Len(node.ingredients) |->
               LET r == node.ingredients[i][2]
                   through == FDiv(FMul(t, Float(r.amount)), Float(node.output_amount))
               IN  IF IsRecipe(r.item) THEN PathSum(r.item, item_id, through)
                   ELSE IF r.item.item_id = item_id THEN through
                   ELSE Zero])

RECURSIVE LeafIds(_)
LeafIds(node) ==
    UNION {LET r == node.ingredients[i][2]
           IN  IF IsRecipe(r.item) THEN LeafIds(r.item) ELSE {r.item.item_id} :
               i \in 1..Len(node.ingredients)}

\* C2: every calculate_total_amount(node, T) returned a mapping whose keys are
\* the leaves reachable from node, each with the sum of its quantities over
\* all paths to it; {ENCHANTED_COAL: 32, ENCHANTED_SULPHUR: 2} for the
\* program's SULPHURIC_COAL and T = 8.
C2_SumOverPaths ==
    \A i \in AmountEntries :
        LET node == namespace[log[i].self]
            got == log[i].result
        IN  /\ Keys(got) = LeafIds(node)
            /\ Len(got) = Cardinality(Keys(got))
            /\ \A id \in Keys(got) : Get(got, id) = PathSum(node, id, Float(log[i].target))
            /\ (IsTheProgramsTree /\ log[i].self = "SULPHURIC_COAL" /\ log[i].target = 8)
                   => got = << <<"ENCHANTED_COAL", Float(32)>>,
                               <<"ENCHANTED_SULPHUR", Float(2)>> >>

\* C2's case: ENCHANTED_COAL reaches HYPERGOLIC_GABAGOOL through SULPHURIC_COAL
\* used by it, by HEAVY_GABAGOOL and by FUEL_GABAGOOL: 4 * (1 + 12 + 288)
C2_Witness ==
    /\ IsTheProgramsTree
    /\ \E i \in AmountEntries :
          /\ log[i].self = "HYPERGOLIC_GABAGOOL"
          /\ log[i].target = 1
          /\ Get(log[i].result, "ENCHANTED_COAL") = Float(1204)

\* C3: of two calls on the same node, with targets T and k*T, the second
\* mapping has the keys of the first and k times each of its values.
C3_Scaling ==
    \A i, j \in AmountEntries :
        log[i].self = log[j].self =>
            LET k == FDiv(Float(log[j].target), Float(log[i].target))
            IN  /\ Keys(log[j].result) = Keys(log[i].result)
                /\ \A id \in Keys(log[i].result) :
                      Get(log[j].result, id) = FMul(k, Get(log[i].result, id))

\* C3's case: SULPHURIC_COAL of the program for 1 and then for 2 units
C3_Witness ==
    /\ IsTheProgramsTree
    /\ Len(log) = 2
    /\ AmountEntries = {1, 2}
    /\ log[1].self = "SULPHURIC_COAL" /\ log[2].self = "SULPHURIC_COAL"
    /\ log[1].target = 1 /\ log[2].target = 2
    /\ Get(log[1].result, "ENCHANTED_SULPHUR") = <<1, 4>>
    /\ Get(log[2].result, "ENCHANTED_SULPHUR") = <<1, 2>>

-----------------------------------------------------------------------------
(* Claims about a valuation step by step, checked under SpecWalk.          *)

IndexOf(name) == CHOOSE i \in 1..Len(ConstructionOrder) : ConstructionOrder[i] = name

\* every recipe bound so far is made of Items of items_data and of recipes
\* bound before it
BuiltFromEarlier ==
    \A i \in 1..Len(ConstructionOrder) :
        ConstructionOrder[i] \in DOMAIN namespace =>
            \A n \in 1..Len(namespace[ConstructionOrder[i]].ingredients) :
                LET item == namespace[ConstructionOrder[i]].ingredients[n][2].item
                IN  IF IsRecipe(item)
                    THEN \E j \in 1..(i - 1) :
                            /\ ConstructionOrder[j] \in DOMAIN namespace
                            /\ namespace[ConstructionOrder[j]] = item
                    ELSE \E m \in 1..Len(items_data) : items_data[m][2] = item

\* a call in progress is at most 5 frames deep, each frame on a recipe bound
\* before the recipe of its caller, and no RecursionError is raised
ShallowStack ==
    /\ Len(stack) <= 5
    /\ \A n \in 1..Len(stack) : stack[n].self \in DOMAIN namespace
    /\ \A n \in 2..Len(stack) : IndexOf(stack[n].self) < IndexOf(stack[n - 1].self)
    /\ error # "RecursionError"

\* C9: the five recipes are built from leaf items and from recipes built
\* before them; a calculate_cost or calculate_total_amount started on any of
\* them is never more than 5 frames deep and always returns.
C9_AcyclicAndTerminating ==
    /\ [](BuiltFromEarlier /\ ShallowStack)
    /\ (stack # <<>>) ~> (stack = <<>>)

\* C9's case: a call started on T3_FUEL has reached SULPHURIC_COAL through
\* HYPERGOLIC_GABAGOOL, HEAVY_GABAGOOL and FUEL_GABAGOOL
C9_Witness ==
    /\ Len(stack) = 5
    /\ stack[1].self = "T3_FUEL"
    /\ stack[5].self = "SULPHURIC_COAL"

====
